---- MODULE Spec2Model ----
(***************************************************************************)
(* Model of the pt-rtd crate (src/src/lib.rs): conversion between the      *)
(* resistance and the temperature of platinum RTD sensors, and scaling of  *)
(* ADC codes to resistances.                                               *)
(*                                                                         *)
(* The crate computes in IEEE-754 binary32 (f32).  Several of its          *)
(* properties (exact zero at the nominal resistance, strict monotonicity,  *)
(* round trips) depend on f32 rounding, so the arithmetic is modelled bit  *)
(* exactly: a finite f32 is a record [k |-> "fin", m, e] of value m * 2^e  *)
(* with |m| < 2^24, every operation rounds to nearest, ties to even.       *)
(* +0.0 and -0.0 are one value (they compare equal in Rust and no          *)
(* operation of the crate divides by a negative zero).                     *)
(* TLC's integers are 32 bits wide, so wide intermediate results are kept  *)
(* as sequences of 12-bit limbs or with guard and sticky bits.             *)
(***************************************************************************)
EXTENDS Integers, Sequences, FiniteSets, TLC

(***************************************************************************)
(* f32 values                                                              *)
(***************************************************************************)
F(m, e) == [k |-> "fin", m |-> m, e |-> e]
Zero == F(0, 0)
NaN == [k |-> "nan", m |-> 0, e |-> 0]
Inf(s) == [k |-> "inf", m |-> s, e |-> 0]

IsFin(a) == a.k = "fin"
IsNaN(a) == a.k = "nan"
IsInf(a) == a.k = "inf"

Abs(n) == IF n < 0 THEN -n ELSE n
Sgn(n) == IF n < 0 THEN -1 ELSE 1
Max(a, b) == IF a >= b THEN a ELSE b

RECURSIVE BitLen(_)
BitLen(n) == IF n = 0 THEN 0 ELSE 1 + BitLen(n \div 2)

\* Smallest exponent of an f32 mantissa bit (subnormals) and the largest
\* exponent a 24-bit mantissa can carry.
EMin == 0 - 149
EMax == 127 - 23

\* A rounded magnitude m < 2^24 with exponent e >= EMin, as an f32.
Pack(s, m, e) ==
    IF m = 0 THEN Zero
    ELSE IF e > EMax THEN Inf(s)
    ELSE F(s * m, e)

\* s * n * 2^e rounded to f32, nearest, ties to even.  0 <= n < 2^31; when n
\* stands for a longer exact value its lowest bit is the sticky bit and n has
\* at least 26 bits.
Round(s, n, e) ==
    IF n = 0 THEN Zero
    ELSE LET bl == BitLen(n)
             sh == Max(bl - 24, EMin - e)
         IN IF sh <= 0
            THEN IF bl - 24 >= EMin - e
                 THEN Pack(s, n * 2^(24 - bl), e - (24 - bl))
                 ELSE Pack(s, n * 2^(e - EMin), EMin)
            ELSE IF sh > bl THEN Zero
            ELSE LET q == n \div 2^sh
                     rem == n % 2^sh
                     half == 2^(sh - 1)
                     q1 == IF rem > half \/ (rem = half /\ q % 2 = 1)
                           THEN q + 1 ELSE q
                 IN IF q1 = 2^24 THEN Pack(s, 2^23, e + sh + 1)
                    ELSE Pack(s, q1, e + sh)

\* A non-zero finite f32 with its mantissa shifted into [2^23, 2^24).
RECURSIVE NormUp(_, _)
NormUp(m, e) == IF m >= 2^23 THEN <<m, e>> ELSE NormUp(2 * m, e - 1)
Norm(a) == NormUp(Abs(a.m), a.e)

Neg(a) == IF IsNaN(a) THEN a ELSE [a EXCEPT !.m = 0 - a.m]

\* a + b
Add(a, b) ==
    IF IsNaN(a) \/ IsNaN(b) THEN NaN
    ELSE IF IsInf(a) THEN (IF IsInf(b) /\ b.m # a.m THEN NaN ELSE a)
    ELSE IF IsInf(b) THEN b
    ELSE IF a.m = 0 THEN b
    ELSE IF b.m = 0 THEN a
    ELSE LET x == IF a.e >= b.e THEN a ELSE b
             y == IF a.e >= b.e THEN b ELSE a
             d == x.e - y.e
         IN IF d > 26 THEN x
            ELSE LET ym == Abs(y.m) * 8
                     ys == ym \div 2^d
                     yj == IF ym % 2^d # 0 /\ ys % 2 = 0 THEN ys + 1 ELSE ys
                     sum == x.m * 8 + Sgn(y.m) * yj
                 IN Round(Sgn(sum), Abs(sum), x.e - 3)

Sub(a, b) == Add(a, Neg(b))

(***************************************************************************)
(* Exact products on little-endian sequences of 12-bit limbs.              *)
(***************************************************************************)
Limb == 2^12

Limbs(m) == <<m % Limb, m \div Limb>>

RECURSIVE ColSum(_, _, _, _)
ColSum(x, y, j, i) ==
    IF i > Len(x) THEN 0
    ELSE (IF j - i + 1 >= 1 /\ j - i + 1 <= Len(y) THEN x[i] * y[j - i + 1] ELSE 0)
         + ColSum(x, y, j, i + 1)

RECURSIVE Carry(_, _, _, _, _)
Carry(x, y, j, c, acc) ==
    IF j > Len(x) + Len(y) THEN acc
    ELSE LET v == ColSum(x, y, j, 1) + c
         IN Carry(x, y, j + 1, v \div Limb, Append(acc, v % Limb))

MulLimbs(x, y) == Carry(x, y, 1, 0, <<>>)

RECURSIVE TopIdx(_, _)
TopIdx(x, i) == IF i = 0 \/ x[i] # 0 THEN i ELSE TopIdx(x, i - 1)

RECURSIVE AnyBelow(_, _)
AnyBelow(x, i) == IF i < 1 THEN FALSE ELSE x[i] # 0 \/ AnyBelow(x, i - 1)

\* s * (the limbs' value) * 2^e rounded to f32.  The limbs hold a product of
\* normalised mantissas, so at least three limbs lie at or below the top one.
RoundLimbs(s, x, e) ==
    LET i == TopIdx(x, Len(x))
        bt == BitLen(x[i])
        w == x[i - 1] * Limb + x[i - 2]
        n25 == x[i] * 2^(25 - bt) + w \div 2^(bt - 1)
        sticky == w % 2^(bt - 1) # 0 \/ AnyBelow(x, i - 3)
    IN Round(s, 2 * n25 + (IF sticky THEN 1 ELSE 0), e + 12 * (i - 3) + (bt - 1) - 1)

\* a * b
Mul(a, b) ==
    IF IsNaN(a) \/ IsNaN(b) THEN NaN
    ELSE IF IsInf(a) \/ IsInf(b)
         THEN (IF a.m = 0 \/ b.m = 0 THEN NaN ELSE Inf(Sgn(a.m) * Sgn(b.m)))
    ELSE IF a.m = 0 \/ b.m = 0 THEN Zero
    ELSE LET na == Norm(a)
             nb == Norm(b)
         IN RoundLimbs(Sgn(a.m) * Sgn(b.m),
                       MulLimbs(Limbs(na[1]), Limbs(nb[1])), na[2] + nb[2])

\* a / b, by long division seven quotient bits at a time
Div(a, b) ==
    IF IsNaN(a) \/ IsNaN(b) THEN NaN
    ELSE IF IsInf(a) THEN (IF IsInf(b) THEN NaN ELSE Inf(Sgn(a.m) * Sgn(b.m)))
    ELSE IF IsInf(b) THEN Zero
    ELSE IF b.m = 0 THEN (IF a.m = 0 THEN NaN ELSE Inf(Sgn(a.m)))
    ELSE IF a.m = 0 THEN Zero
    ELSE LET na == Norm(a)
             nb == Norm(b)
             dv == nb[1]
             q0 == na[1] \div dv
             r0 == na[1] % dv
             q1 == (r0 * 128) \div dv
             r1 == (r0 * 128) % dv
             q2 == (r1 * 128) \div dv
             r2 == (r1 * 128) % dv
             q3 == (r2 * 128) \div dv
             r3 == (r2 * 128) % dv
             q4 == (r3 * 128) \div dv
             r4 == (r3 * 128) % dv
             q == (((q0 * 128 + q1) * 128 + q2) * 128 + q3) * 128 + q4
         IN Round(Sgn(a.m) * Sgn(b.m), 2 * q + (IF r4 # 0 THEN 1 ELSE 0),
                  na[2] - nb[2] - 29)

RECURSIVE ISqrt(_)
ISqrt(n) ==
    IF n < 2 THEN n
    ELSE LET r == 2 * ISqrt(n \div 4)
         IN IF (r + 1) * (r + 1) <= n THEN r + 1 ELSE r

\* steps more bits of the square root: <<root, remainder>>
RECURSIVE SqrtBits(_, _, _)
SqrtBits(root, rem, steps) ==
    IF steps = 0 THEN <<root, rem>>
    ELSE IF 4 * rem >= 4 * root + 1
         THEN SqrtBits(2 * root + 1, 4 * rem - (4 * root + 1), steps - 1)
         ELSE SqrtBits(2 * root, 4 * rem, steps - 1)

\* sqrtf
Sqrt(a) ==
    IF IsNaN(a) THEN NaN
    ELSE IF a.m < 0 THEN NaN
    ELSE IF IsInf(a) THEN a
    ELSE IF a.m = 0 THEN Zero
    ELSE LET na == Norm(a)
             odd == na[2] % 2 # 0
             m2 == IF odd THEN 2 * na[1] ELSE na[1]
             e2 == IF odd THEN na[2] - 1 ELSE na[2]
             r0 == ISqrt(m2)
             rr == SqrtBits(r0, m2 - r0 * r0, 14)
         IN Round(1, 2 * rr[1] + (IF rr[2] # 0 THEN 1 ELSE 0), e2 \div 2 - 15)
\* x^n on limbs, n >= 1
RECURSIVE PowLimbs(_, _)
PowLimbs(x, n) == IF n = 1 THEN x ELSE MulLimbs(PowLimbs(x, n - 1), x)

\* libm::powf(x, y) for the exponents the crate passes, y = n in 0..5.
\* libm returns 1 for y = 0 (also for a NaN x), x for y = 1 and x * x for
\* y = 2; for the other exponents it is modelled as x^y rounded to nearest.
PowF(x, n) ==
    IF n = 0 THEN F(2^23, 0 - 23)
    ELSE IF n = 1 THEN x
    ELSE IF n = 2 THEN Mul(x, x)
    ELSE IF IsNaN(x) THEN NaN
    ELSE IF IsInf(x) THEN Inf(IF x.m < 0 /\ n % 2 = 1 THEN 0 - 1 ELSE 1)
    ELSE IF x.m = 0 THEN Zero
    ELSE LET nx == Norm(x)
         IN RoundLimbs(IF x.m < 0 /\ n % 2 = 1 THEN 0 - 1 ELSE 1,
                       PowLimbs(Limbs(nx[1]), n), n * nx[2])

I32Max == (2^30 - 1) + 2^30
I32Min == 0 - I32Max - 1

\* `floorf(x) as i32`: the cast saturates and maps NaN to 0.
FloorI32(a) ==
    IF IsNaN(a) THEN 0
    ELSE IF IsInf(a) THEN (IF a.m < 0 THEN I32Min ELSE I32Max)
    ELSE IF a.e >= 8 THEN (IF a.m < 0 THEN I32Min ELSE I32Max)
    ELSE IF a.e >= 0 THEN a.m * 2^a.e
    ELSE IF a.e <= 0 - 24 THEN (IF a.m < 0 THEN 0 - 1 ELSE 0)
    ELSE a.m \div 2^(0 - a.e)

\* `n as f32` for an i32 or a u32 below 2^31
FromInt(n) ==
    IF n = I32Min THEN F(0 - 2^23, 8)
    ELSE Round(Sgn(n), Abs(n), 0)

\* a < b, a <= b and a == b as f32 comparisons (false on NaN)
Lt(a, b) == LET d == Sub(a, b) IN ~IsNaN(a) /\ ~IsNaN(b) /\ a # b /\ d.m < 0
Eq(a, b) == ~IsNaN(a) /\ ~IsNaN(b) /\ a = b
Le(a, b) == Lt(a, b) \/ Eq(a, b)
FAbs(a) == IF IsNaN(a) THEN a ELSE [a EXCEPT !.m = Abs(a.m)]
(***************************************************************************)
(* The crate                                                               *)
(***************************************************************************)
\* enum ADCRes and enum RTDType, by their discriminants
ADCRes == {255, 1023, 4095, 16383, 65535, 262143, 1048575, 4194303, 16777215}
RTDType == {100, 200, 500, 1000}

\* The f32 nearest to each decimal literal of the source.
One == F(2^23, -23)
Two == F(2^23, -22)
Four == F(2^23, -21)
Hundred == F(13107200, -17)
\* 3.9083e-3, -5.7750e-7, -4.1830e-12
A == F(8393010, -31)
B == F(-10159487, -44)
C == F(-9645341, -61)

\* RTDCorrection::PT100 .. PT1000, in the order the source lists the factors
CorrPT100 ==
    << F(10945043, -56),     \*  1.51892983e-10
       F(-16091478, -49),    \* -2.85842067e-08
       F(-11747783, -41),    \* -5.34227299e-06
       F(15486189, -33),     \*  1.80282972e-03
       F(-10863313, -26),    \* -1.61875985e-01
       F(10152572, -21) >>   \*  4.84112370e+00
CorrPT200 == << Zero, Zero, Zero, Zero, Zero, Zero >>
CorrPT500 == << Zero, Zero, Zero, Zero, Zero, Zero >>
CorrPT1000 ==
    << F(14345887, -73),     \*  1.51892983e-15
       F(-13182139, -62),    \* -2.85842067e-12
       F(-12029729, -51),    \* -5.34227299e-09
       F(9911161, -39),      \*  1.80282972e-05
       F(-8690651, -29),     \* -1.61875985e-02
       F(10152572, -21) >>   \*  4.84112370e+00

\* Result<f32, Error>; "Panic" is a failed unwrap().
Ok(v) == [tag |-> "Ok", val |-> v]
Err(e) == [tag |-> e, val |-> Zero]
Pending == [tag |-> "Pending", val |-> Zero]

\* The match arms of calc_r on floorf(t) as i32
\* Mutant of InUpperRange: the range written 0..850, without its upper end
InUpperRangeExcl(ft) == 0 <= ft /\ ft < 850
InUpperRange(ft) == 0 <= ft /\ ft <= 850
InLowerRange(ft) == -200 <= ft /\ ft <= -1

\* r_0 * (1 + A*t + B*t^2 + C*(t - 100)*t^3)
RCubic(t, r0f) ==
    Mul(r0f, Add(Add(Add(One, Mul(A, t)), Mul(B, PowF(t, 2))),
                 Mul(Mul(C, Sub(t, Hundred)), PowF(t, 3))))

\* Mutants of RQuad: the constant term left out; the cubic term kept at and
\* above 0 degrees.
RQuadNoOne(t, r0f) ==
    Mul(r0f, Add(Mul(A, t), Mul(B, PowF(t, 2))))
RQuadWithCubic(t, r0f) == RCubic(t, r0f)

\* r_0 * (1 + A*t + B*t^2)
RQuad(t, r0f) ==
    Mul(r0f, Add(Add(One, Mul(A, t)), Mul(B, PowF(t, 2))))

CalcR(t, r_0) ==
    LET ft == FloorI32(t)
    IN IF InUpperRange(ft) THEN Ok(RQuad(t, FromInt(r_0)))
       ELSE IF InLowerRange(ft) THEN Ok(RCubic(t, FromInt(r_0)))
       ELSE Err("OutOfBounds")

\* The match on r_0 that selects the correctional polynomial
CorrPoly(r_0) ==
    CASE r_0 = 100 -> [tag |-> "Ok", poly |-> CorrPT100]
      [] r_0 = 200 -> [tag |-> "Ok", poly |-> CorrPT200]
      [] r_0 = 500 -> [tag |-> "Ok", poly |-> CorrPT500]
      [] r_0 = 1000 -> [tag |-> "Ok", poly |-> CorrPT1000]

\* res += factor * powf(r, i as f32) over poly.iter().enumerate(); i from 0
RECURSIVE PolyLoop(_, _, _, _)
PolyLoop(r, poly, i, res) ==
    IF i > Len(poly) THEN res
    ELSE PolyLoop(r, poly, i + 1, Add(res, Mul(poly[i], PowF(r, i - 1))))

PolyCorrection(r, poly) == PolyLoop(r, poly, 1, Zero)

\* Mutants of TQuad: the sign of -r_0*A lost; r - r_0 for r_0 - r.
TQuadPlus(r, r0f) ==
    Div(Add(Mul(r0f, A),
            Sqrt(Sub(Mul(PowF(r0f, 2), PowF(A, 2)),
                     Mul(Mul(Mul(Four, r0f), B), Sub(r0f, r))))),
        Mul(Mul(Two, r0f), B))
TQuadSwapped(r, r0f) ==
    Div(Add(Mul(Neg(r0f), A),
            Sqrt(Sub(Mul(PowF(r0f, 2), PowF(A, 2)),
                     Mul(Mul(Mul(Four, r0f), B), Sub(r, r0f))))),
        Mul(Mul(Two, r0f), B))

\* ( -r_0*A + sqrtf( r_0^2 * A^2 - 4*r_0*B*(r_0 - r) ) ) / ( 2*r_0*B )
TQuad(r, r0f) ==
    Div(Add(Mul(Neg(r0f), A),
            Sqrt(Sub(Mul(PowF(r0f, 2), PowF(A, 2)),
                     Mul(Mul(Mul(Four, r0f), B), Sub(r0f, r))))),
        Mul(Mul(Two, r0f), B))

\* The value calc_t's sub-zero arm passes to poly_correction: inside the arm
\* `(r, r_0) if ...` the name r is the matched floorf(r) as i32, cast back.
CorrArg(r) == FromInt(FloorI32(r))

CalcT(r, r_0) ==
    LET lo == CalcR(F(-13107200, -16), r_0)     \* calc_r(-200_f32, r_0)
        hi == CalcR(F(13926400, -14), r_0)      \* calc_r(850_f32, r_0)
    IN IF lo.tag # "Ok" \/ hi.tag # "Ok" THEN Err("Panic")
       ELSE LET r_min == FloorI32(lo.val)
                r_max == FloorI32(hi.val)
                corr_poly == CorrPoly(r_0)
                r0f == FromInt(r_0)
                t == TQuad(r, r0f)
                ri == FloorI32(r)
                r0i == FloorI32(r0f)
            IN IF corr_poly.tag = "Ok"
               THEN IF r0i <= ri /\ ri <= r_max THEN Ok(t)
                    ELSE IF r_min <= ri /\ ri < r0i
                         THEN Ok(Add(t, PolyCorrection(CorrArg(r), corr_poly.poly)))
                    ELSE Err("OutOfBounds")
               ELSE Err("NonexistentType")

\* Mutant of CodeInRange: d < res
CodeInRangeStrict(d, res) == d < res

\* The guard of conv_d_val_to_r's first match arm
CodeInRange(d, res) == d <= res

ConvDValToR(d_val, r_ref, res, pga_gain) ==
    IF CodeInRange(d_val, res)
    THEN Ok(Div(Mul(FromInt(d_val), FromInt(r_ref)),
                Mul(FromInt(res), FromInt(pga_gain))))
    ELSE Err("OutOfBounds")
(***************************************************************************)
(* Callers: each behaviour is one caller that picks its arguments, calls a *)
(* public function and may then call again with a higher temperature or    *)
(* feed the returned resistance to calc_t.                                 *)
(***************************************************************************)
VARIABLES
    fn,      \* the public function called: "calc_r", "calc_t", "conv_d_val_to_r"
    r_0,     \* the RTDType argument of calc_r and calc_t
    arg,     \* the f32 argument: t of calc_r, r of calc_t
    adc,     \* the arguments of conv_d_val_to_r
    ret,     \* what the call returned; Pending until it has
    prev     \* the caller's previous call: [fn, arg, ret]

vars == <<fn, r_0, arg, adc, ret, prev>>

\* Bounds of the argument sets
Margin == 2
GridBits == 0
GapBits == 2
RGridBits == 1
MaxGain == 3
MaxRefStep == 4

\* n * 2^e for |n| < 2^24
Flt(n, e) == Round(Sgn(n), Abs(n), e)

\* The f32 next above a finite a
NextUp(a) ==
    IF a.m = 0 THEN F(1, EMin)
    ELSE IF a.m > 0 THEN Round(1, a.m + 1, a.e)
    ELSE IF a.m = -(2^23) /\ a.e > EMin THEN F(-(2^24 - 1), a.e - 1)
    ELSE Pack(-1, -(a.m) - 1, a.e)

TLow == F(-13107200, -16)       \* -200.0
THigh == F(13926400, -14)       \* 850.0
InDomain(t) == Le(TLow, t) /\ Le(t, THigh)

\* NaN, the infinities, +-2^100, 850.5, 850.75 and the smallest subnormal
SpecialArgs ==
    { NaN, Inf(1), Inf(-1), F(2^23, 77), F(-(2^23), 77),
      F(13934592, -14), F(13938688, -14), F(1, EMin) }

GridTemps ==
    { Flt(k, -GridBits) :
        k \in (-200 - Margin) * 2^GridBits .. (850 + Margin) * 2^GridBits }

Temps == GridTemps \cup SpecialArgs

\* Resistances from 0 to past four times the nominal one, the exact bounds
\* calc_r gives at -200 and 850 and their neighbours
GridRes(r0) ==
    { Flt(k * (r0 \div 100), -RGridBits) : k \in 0 .. (400 + Margin) * 2^RGridBits }

BoundRes(r0) ==
    LET lo == CalcR(TLow, r0).val
        hi == CalcR(THigh, r0).val
    IN { lo, NextUp(lo), Neg(NextUp(Neg(lo))), hi, NextUp(hi),
         FromInt(FloorI32(lo)), Add(FromInt(FloorI32(lo)), F(2^23, -25)),
         FromInt(FloorI32(lo) - 1), Add(FromInt(FloorI32(lo) - 1), F(3 * 2^22, -24)),
         FromInt(FloorI32(hi)), Add(FromInt(FloorI32(hi)), F(3 * 2^22, -24)),
         FromInt(FloorI32(hi) + 1), Add(FromInt(r0 - 1), F(3 * 2^22, -24)) }

Resistances(r0) == GridRes(r0) \cup BoundRes(r0) \cup SpecialArgs \cup {F(-(11 * 2^20), -21)}

Codes(res) == {0, 1, res \div 2, res - 1, res, res + 1, 2 * res + 1}
Refs == {0, 1, 100, 1000} \cup { 1000 + 25 * k : k \in 1 .. MaxRefStep }
Gains == 0 .. MaxGain

NoAdc == [d_val |-> 0, r_ref |-> 0, res |-> 255, pga_gain |-> 0]
NoPrev == [fn |-> "none", arg |-> Zero, ret |-> Pending]

InitCalcR ==
    /\ fn = "calc_r"
    /\ r_0 \in RTDType
    /\ arg \in Temps
    /\ adc = NoAdc
    /\ ret = Pending
    /\ prev = NoPrev

InitCalcT ==
    /\ fn = "calc_t"
    /\ r_0 \in RTDType
    /\ arg \in Resistances(r_0)
    /\ adc = NoAdc
    /\ ret = Pending
    /\ prev = NoPrev

InitConv ==
    /\ fn = "conv_d_val_to_r"
    /\ r_0 = 100
    /\ arg = Zero
    /\ \E res \in ADCRes : \E d \in Codes(res) : \E ref \in Refs : \E g \in Gains :
          adc = [d_val |-> d, r_ref |-> ref, res |-> res, pga_gain |-> g]
    /\ ret = Pending
    /\ prev = NoPrev

Init == InitCalcR \/ InitCalcT \/ InitConv

\* calc_r(arg, r_0) runs and returns
CallCalcR ==
    /\ fn = "calc_r"
    /\ ret = Pending
    /\ ret' = CalcR(arg, r_0)
    /\ UNCHANGED <<fn, r_0, arg, adc, prev>>

\* calc_t(arg, r_0) runs and returns
CallCalcT ==
    /\ fn = "calc_t"
    /\ ret = Pending
    /\ ret' = CalcT(arg, r_0)
    /\ UNCHANGED <<fn, r_0, arg, adc, prev>>

\* conv_d_val_to_r(d_val, r_ref, res, pga_gain) runs and returns
CallConv ==
    /\ fn = "conv_d_val_to_r"
    /\ ret = Pending
    /\ ret' = ConvDValToR(adc.d_val, adc.r_ref, adc.res, adc.pga_gain)
    /\ UNCHANGED <<fn, r_0, arg, adc, prev>>

\* After calc_r returned a resistance the caller asks again for a higher
\* temperature: the next f32, 2^-GapBits higher, or one degree higher.
HigherTemps(t) == { NextUp(t), Add(t, F(2^23, -23 - GapBits)), Add(t, One) }

CalcRAgain ==
    /\ fn = "calc_r"
    /\ ret.tag = "Ok"
    /\ prev = NoPrev
    /\ IsFin(arg)
    /\ \E t2 \in HigherTemps(arg) :
          /\ arg' = t2
          /\ prev' = [fn |-> fn, arg |-> arg, ret |-> ret]
    /\ ret' = Pending
    /\ UNCHANGED <<fn, r_0, adc>>

\* After calc_r returned a resistance the caller passes it to calc_t.
FeedBack ==
    /\ fn = "calc_r"
    /\ ret.tag = "Ok"
    /\ prev = NoPrev
    /\ fn' = "calc_t"
    /\ arg' = ret.val
    /\ prev' = [fn |-> fn, arg |-> arg, ret |-> ret]
    /\ ret' = Pending
    /\ UNCHANGED <<r_0, adc>>

NextCalcR == CallCalcR \/ CalcRAgain
NextCalcT == CallCalcT
NextRoundTrip == CallCalcR \/ FeedBack \/ CallCalcT
NextConv == CallConv
Next == CallCalcR \/ CalcRAgain \/ FeedBack \/ CallCalcT \/ CallConv

SpecCalcR == InitCalcR /\ [][NextCalcR]_vars
SpecCalcT == InitCalcT /\ [][NextCalcT]_vars
SpecRoundTrip == InitCalcR /\ [][NextRoundTrip]_vars
SpecConv == InitConv /\ [][NextConv]_vars
Spec == Init /\ [][Next]_vars
(***************************************************************************)
(* Claims                                                                  *)
(***************************************************************************)
Returned == ret # Pending
R0F == FromInt(r_0)
\* The exact resistances calc_r gives at the ends of the temperature range
RLow == CalcR(TLow, r_0).val
RHigh == CalcR(THigh, r_0).val
MinusOne == F(-(2^23), -23)
\* 2^-10 degrees, about 0.001
Tol == F(2^23, -33)
Gap == F(2^23, -23 - GapBits)
RoundTrip == fn = "calc_t" /\ prev.fn = "calc_r" /\ Returned

\* C1: for PT100 and PT1000 and t in [-200, -1], calc_t(calc_r(t, r0), r0)
\* is Ok and differs from t by no more than the tolerance (here 2^-10, far
\* above the claimed 1e-4).
C1_RoundTripBelowZero ==
    (RoundTrip /\ r_0 \in {100, 1000} /\ Le(TLow, prev.arg) /\ Le(prev.arg, MinusOne))
        => (ret.tag = "Ok" /\ Le(FAbs(Sub(ret.val, prev.arg)), Tol))

\* C2: calc_t returns Err(OutOfBounds) for every resistance strictly below
\* calc_r(-200, r0) and for every resistance strictly above calc_r(850, r0).
C2_OutOfBoundsOutsideRange ==
    (fn = "calc_t" /\ prev = NoPrev /\ Returned
        /\ (Lt(arg, RLow) \/ Lt(RHigh, arg)))
        => ret.tag = "OutOfBounds"

\* C3: calc_r returns Err(OutOfBounds) for every t < -200 and every t > 850,
\* and Ok for every t in [-200, 850].
C3_OutOfBoundsOutsideDomain ==
    (fn = "calc_r" /\ Returned /\ ~IsNaN(arg))
        => (IF InDomain(arg) THEN ret.tag = "Ok" ELSE ret.tag = "OutOfBounds")

C5_ZeroGivesNominal ==
    (fn = "calc_r" /\ Returned /\ arg = Zero) => ret = Ok(Flt(r_0, 0))

C5_Witness ==
    fn = "calc_r" /\ arg = Zero /\ r_0 = 1000 /\ ret = Ok(Flt(1000, 0))

\* C6, as stated: Err(OutOfBounds) exactly when code > max_code; code = 0
\* with a positive gain yields 0; code = max_code with gain = 1 yields r_ref.
C6_FullScaleGivesRef ==
    (fn = "conv_d_val_to_r" /\ Returned)
        => /\ ret.tag = (IF adc.d_val > adc.res THEN "OutOfBounds" ELSE "Ok")
           /\ (adc.d_val = 0 /\ adc.pga_gain > 0) => ret.val = Zero
           /\ (adc.d_val = adc.res /\ adc.pga_gain = 1) => ret.val = FromInt(adc.r_ref)

\* Whether a * b is below 2^24, so that the f32 product is exact
SmallProduct(a, b) == a = 0 \/ b <= (2^24 - 1) \div a

\* C6, amended: Err(OutOfBounds) exactly when code > max_code, Ok otherwise;
\* the value is the exact quotient code * r_ref / (max_code * gain) whenever
\* both products are below 2^24 and the quotient is an integer; code = 0
\* with a positive gain yields 0; code = max_code with gain = 1 yields r_ref
\* exactly when max_code * r_ref < 2^24 (12 bits, r_ref = 1000: 1000.0) and
\* within a relative error of 2^-22 otherwise.
C6_ScalesLinearly ==
    (fn = "conv_d_val_to_r" /\ Returned)
        => /\ ret.tag = (IF adc.d_val > adc.res THEN "OutOfBounds" ELSE "Ok")
           /\ (adc.d_val = 0 /\ adc.pga_gain > 0) => ret.val = Zero
           /\ (/\ ret.tag = "Ok"
               /\ adc.pga_gain > 0
               /\ SmallProduct(adc.d_val, adc.r_ref)
               /\ SmallProduct(adc.res, adc.pga_gain)
               /\ (adc.d_val * adc.r_ref) % (adc.res * adc.pga_gain) = 0)
              => ret.val = FromInt((adc.d_val * adc.r_ref) \div (adc.res * adc.pga_gain))
           /\ (adc.d_val = adc.res /\ adc.pga_gain = 1)
              => /\ SmallProduct(adc.res, adc.r_ref) => ret.val = FromInt(adc.r_ref)
                 /\ Le(FAbs(Sub(ret.val, FromInt(adc.r_ref))),
                       Mul(FromInt(adc.r_ref), F(2^23, -45)))
           /\ (adc.res = 4095 /\ adc.r_ref = 1000 /\ adc.pga_gain = 1 /\ adc.d_val = 4095)
              => ret = Ok(Flt(1000, 0))

C6_Witness ==
    /\ fn = "conv_d_val_to_r"
    /\ adc = [d_val |-> 16383, r_ref |-> 1025, res |-> 16383, pga_gain |-> 1]
    /\ ret.tag = "Ok"
    /\ ret.val # Flt(1025, 0)

\* C7: for every RTD type and every t in [0, 850], calc_t(calc_r(t, r0), r0)
\* is Ok, is the quadratic inverse with no correction added, and differs
\* from t by no more than 2^-10 degrees.
C7_RoundTripAboveZero ==
    (RoundTrip /\ Le(Zero, prev.arg) /\ Le(prev.arg, THigh))
        => /\ ret.tag = "Ok"
           /\ ret.val = TQuad(arg, R0F)
           /\ Le(FAbs(Sub(ret.val, prev.arg)), Tol)

C7_Witness ==
    RoundTrip /\ prev.arg = THigh /\ r_0 = 1000 /\ ret.tag = "Ok" /\ ret.val # THigh

\* C8, as stated: calc_r(t1, r0) < calc_r(t2, r0) for all t1 < t2 in
\* [-200, 850].
C8_StrictlyIncreasing ==
    (fn = "calc_r" /\ prev.fn = "calc_r" /\ Returned
        /\ InDomain(prev.arg) /\ InDomain(arg) /\ Lt(prev.arg, arg))
        => (ret.tag = "Ok" /\ Lt(prev.ret.val, ret.val))

\* C8, amended: calc_r(t1, r0) < calc_r(t2, r0) for all t1, t2 in
\* [-200, 850] that are at least 2^-GapBits degrees apart, also across the
\* switch of formula at 0.
C8_IncreasingAcrossGap ==
    (fn = "calc_r" /\ prev.fn = "calc_r" /\ Returned
        /\ InDomain(prev.arg) /\ InDomain(arg) /\ Le(Gap, Sub(arg, prev.arg)))
        => (ret.tag = "Ok" /\ Lt(prev.ret.val, ret.val))

C8_Witness ==
    /\ fn = "calc_r" /\ prev.fn = "calc_r"
    /\ prev.arg = MinusOne /\ arg = Zero
    /\ ret.tag = "Ok" /\ Lt(prev.ret.val, ret.val)

\* C9: every public function returns Ok, OutOfBounds or NonexistentType for
\* every input, never panics, and the two unwrap() calls of calc_t succeed.
C9_NoPanic ==
    /\ ret.tag \in {"Pending", "Ok", "OutOfBounds", "NonexistentType"}
    /\ fn = "calc_t" => (CalcR(TLow, r_0).tag = "Ok" /\ CalcR(THigh, r_0).tag = "Ok")

C9_Witness ==
    /\ fn = "conv_d_val_to_r"
    /\ adc.pga_gain = 0 /\ adc.d_val = 0
    /\ ret.tag = "Ok" /\ IsNaN(ret.val)

\* C10: in the sub-zero branch (r_min <= floor(r) < r0) the result is the
\* quadratic inverse plus the correction polynomial evaluated at the raw r.
C10_CorrectionAtRawResistance ==
    (fn = "calc_t" /\ Returned
        /\ FloorI32(RLow) <= FloorI32(arg) /\ FloorI32(arg) < r_0)
        => ret = Ok(Add(TQuad(arg, R0F), PolyCorrection(arg, CorrPoly(r_0).poly)))
====
